---- MODULE Spec2Model ----
(***************************************************************************)
(* A model of tart (src/main.rs): a command-line dispatcher over three     *)
(* handlers (compress_files, decompress_files, add_file_to_tar_gz) that    *)
(* act on a filesystem.                                                    *)
(*                                                                         *)
(* File contents are sequences of tokens.  A token stands for a run of     *)
(* bytes: a gzip member header, one tar entry (header block plus data), the*)
(* tar end-of-archive marker, a gzip trailer, or opaque data.  Writing an  *)
(* archive and reading it back are different computations on these         *)
(* sequences (GzSegment builds, UnpackEntries parses).                     *)
(***************************************************************************)
EXTENDS Integers, Sequences, FiniteSets, TLC

\* Longest list of values given to -i.
MaxInputs == 2

\* Path names the command line can mention; all relative, in one directory.
Paths == {"a", "b", "t", "d"}

\* An option that was not given (Option::None of get_one / get_many).
None == "<none>"

(***************************************************************************)
(* Bytes                                                                   *)
(***************************************************************************)
Tok(k, p, d) == [k |-> k, path |-> p, data |-> d]

Raw(label) == Tok("raw", label, <<>>)

GzHeader == Tok("gz", "", <<>>)

GzTrailer == Tok("trl", "", <<>>)

EndOfArchive == Tok("eoa", "", <<>>)

FileEntry(p, d) == Tok("file", p, d)

DirEntry(p) == Tok("dir", p, <<>>)

\* What Builder<GzEncoder<BufWriter<File>>> hands to the file once the
\* builder has written its end marker and the encoder its trailer.
GzSegment(entries) == <<GzHeader>> \o entries \o <<EndOfArchive, GzTrailer>>

\* A write of seg through a handle whose cursor is at offset 0 of a file
\* that holds old and is not truncated.
Overwrite(old, seg) == seg \o SubSeq(old, Len(seg) + 1, Len(old))

(***************************************************************************)
(* Filesystem: each name is absent, a regular file or a directory whose    *)
(* children are files or empty directories.                                *)
(***************************************************************************)
NoChild == [kind |-> "none", data |-> <<>>]

ChildFile(d) == [kind |-> "file", data |-> d]

ChildDir == [kind |-> "dir", data |-> <<>>]

NoKids == [p \in Paths |-> NoChild]

Absent == [kind |-> "none", data |-> <<>>, kids |-> NoKids]

RegFile(d) == [kind |-> "file", data |-> d, kids |-> NoKids]

Dir(kids) == [kind |-> "dir", data |-> <<>>, kids |-> kids]

Exists(f, p) == f[p].kind # "none"

(***************************************************************************)
(* Output lines and the log of filesystem calls                            *)
(***************************************************************************)
Msg(m, a, b) == [msg |-> m, a |-> a, b |-> b, n |-> 0]

\* The success line of compress_files carries the number of requested files.
MsgCount(m, n, b) == [msg |-> m, a |-> "", b |-> b, n |-> n]

IO(op, p) == [op |-> op, path |-> p]

Result(f, ok, out, err, io) ==
    [fs |-> f, ok |-> ok, out |-> out, err |-> err, io |-> io]

(***************************************************************************)
(* compress_files                                                          *)
(***************************************************************************)
\* EntryOf with a fault: the header is appended without the file's content.
EntryOf_NoData(f, file) ==
    IF f[file].kind = "dir" THEN DirEntry(file)
    ELSE FileEntry(file, <<>>)

\* Builder::append_path on a path that exists: one entry, named as given,
\* with the content the file has when it is read.
EntryOf(f, file) ==
    IF f[file].kind = "dir" THEN DirEntry(file)
    ELSE FileEntry(file, f[file].data)

\* Visit with a fault: a missing path is skipped without a warning.
Visit_Silent(f, file) ==
    IF Exists(f, file)
    THEN [entries |-> <<EntryOf(f, file)>>, err |-> <<>>,
          io |-> <<IO("stat", file), IO("open_r", file)>>]
    ELSE [entries |-> <<>>, err |-> <<>>, io |-> <<IO("stat", file)>>]

\* One iteration of the loop of compress_files.
Visit(f, file) ==
    IF Exists(f, file)
    THEN [entries |-> <<EntryOf(f, file)>>, err |-> <<>>,
          io |-> <<IO("stat", file), IO("open_r", file)>>]
    ELSE [entries |-> <<>>, err |-> <<Msg("skip", file, "")>>,
          io |-> <<IO("stat", file)>>]

RECURSIVE CompressLoop(_, _, _)
CompressLoop(f, input_files, i) ==
    IF i = 0 THEN [entries |-> <<>>, err |-> <<>>, io |-> <<>>]
    ELSE LET r == CompressLoop(f, input_files, i - 1)
             v == Visit(f, input_files[i])
         IN  [entries |-> r.entries \o v.entries,
              err |-> r.err \o v.err,
              io |-> r.io \o v.io]

\* File::create: fails on a directory, otherwise leaves an empty file.
CanCreate(f, output) == f[output].kind # "dir"

\* The output is created (emptied) before the loop reads any input, and the
\* encoder's bytes stay in its buffers until the final flush, so a listed
\* path that is the output itself exists and reads as empty.  Entry metadata
\* (mode, mtime) is not modelled.
compress_files(f, input_files, output) ==
    IF ~CanCreate(f, output)
    THEN Result(f, FALSE, <<>>, <<>>, <<IO("create", output)>>)
    ELSE LET f1 == [f EXCEPT ![output] = RegFile(<<>>)]
             r  == CompressLoop(f1, input_files, Len(input_files))
         IN  Result([f1 EXCEPT ![output] = RegFile(GzSegment(r.entries))],
                    TRUE,
                    <<MsgCount("compressed", Len(input_files), output)>>,
                    r.err,
                    <<IO("create", output)>> \o r.io \o <<IO("write", output)>>)

(***************************************************************************)
(* decompress_files                                                        *)
(***************************************************************************)
\* Entry::unpack_in for a regular file entry, into the destination node.
CanPutFile(node, p) == node.kind = "dir" /\ node.kids[p].kind # "dir"

PutFile(node, p, d) == [node EXCEPT !.kids[p] = ChildFile(d)]

CanPutDir(node, p) == node.kind = "dir" /\ node.kids[p].kind # "file"

PutDir(node, p) == [node EXCEPT !.kids[p] = ChildDir]

\* Directory entries are created after every other entry, here in archive
\* order; the first one that meets a file of the same name fails.
RECURSIVE MakeDirs(_, _, _)
MakeDirs(node, dirs, i) ==
    IF i > Len(dirs) THEN [node |-> node, ok |-> TRUE]
    ELSE IF CanPutDir(node, dirs[i])
         THEN MakeDirs(PutDir(node, dirs[i]), dirs, i + 1)
         ELSE [node |-> node, ok |-> FALSE]

\* The entry loop of Archive::unpack over the decoded stream: stops at the
\* end marker and reads nothing after it; fails on the end of the input or
\* on anything that is not an entry, keeping what it extracted before.
RECURSIVE UnpackEntries(_, _, _, _)
UnpackEntries(bytes, i, node, dirs) ==
    IF i > Len(bytes) THEN [node |-> node, ok |-> FALSE]
    ELSE CASE bytes[i].k = "file" ->
                IF CanPutFile(node, bytes[i].path)
                THEN UnpackEntries(bytes, i + 1,
                         PutFile(node, bytes[i].path, bytes[i].data), dirs)
                ELSE [node |-> node, ok |-> FALSE]
           [] bytes[i].k = "dir" ->
                UnpackEntries(bytes, i + 1, node, Append(dirs, bytes[i].path))
           [] bytes[i].k = "eoa" -> MakeDirs(node, dirs, 1)
           [] OTHER -> [node |-> node, ok |-> FALSE]

\* Archive::unpack(output_dir) reading through GzDecoder: the destination is
\* created when absent, before the first byte is decoded; the stream must
\* start with a gzip header.
Unpack(src, node) ==
    LET dst == IF node.kind = "none" THEN Dir(NoKids) ELSE node
    IN  IF src.kind = "file" /\ Len(src.data) > 0 /\ src.data[1] = GzHeader
        THEN UnpackEntries(src.data, 2, dst, <<>>)
        ELSE [node |-> dst, ok |-> FALSE]

\* decompress_files with a fault: the result of unpack is dropped.
decompress_files_Unchecked(f, input, output_dir) ==
    IF ~Exists(f, input)
    THEN Result(f, FALSE, <<>>, <<>>, <<IO("open_r", input)>>)
    ELSE LET u == Unpack(f[input], f[output_dir])
         IN  Result([f EXCEPT ![output_dir] = u.node],
                    TRUE,
                    <<Msg("extracted", input, output_dir)>>,
                    <<>>,
                    <<IO("open_r", input), IO("unpack", output_dir)>>)

decompress_files(f, input, output_dir) ==
    IF ~Exists(f, input)
    THEN Result(f, FALSE, <<>>, <<>>, <<IO("open_r", input)>>)
    ELSE LET u == Unpack(f[input], f[output_dir])
         IN  Result([f EXCEPT ![output_dir] = u.node],
                    u.ok,
                    IF u.ok THEN <<Msg("extracted", input, output_dir)>>
                            ELSE <<>>,
                    <<>>,
                    <<IO("open_r", input), IO("unpack", output_dir)>>)

(***************************************************************************)
(* add_file_to_tar_gz                                                      *)
(***************************************************************************)
\* What the builder holds when the function is left, by return or by `?`:
\* nothing when the file to add cannot be opened, a header without its data
\* when it is a directory (the read fails), else one complete entry.
AddEntries(f, file_path) ==
    CASE f[file_path].kind = "none" -> <<>>
      [] f[file_path].kind = "dir"  -> <<Raw(file_path)>>
      [] OTHER -> <<FileEntry(file_path, f[file_path].data)>>

\* Scope exit: Builder::drop writes the end marker, GzEncoder::drop the
\* trailer, BufWriter::drop flushes to the file, whose cursor is where
\* OpenOptions::open left it: at offset 0.
DropFlush(f, tar_gz_path, entries) ==
    [f EXCEPT ![tar_gz_path] =
        RegFile(Overwrite(f[tar_gz_path].data, GzSegment(entries)))]

add_file_to_tar_gz(f, tar_gz_path, file_path) ==
    IF f[tar_gz_path].kind # "file"
    THEN Result(f, FALSE, <<>>, <<>>, <<IO("open_rw", tar_gz_path)>>)
    ELSE LET ok == f[file_path].kind = "file"
         IN  Result(DropFlush(f, tar_gz_path, AddEntries(f, file_path)),
                    ok,
                    IF ok THEN <<Msg("added", file_path, tar_gz_path)>>
                          ELSE <<>>,
                    <<>>,
                    <<IO("open_rw", tar_gz_path), IO("open_r", file_path),
                      IO("write", tar_gz_path)>>)

(***************************************************************************)
(* main                                                                    *)
(***************************************************************************)
VARIABLES
    fs,       \* the filesystem
    fs0,      \* the filesystem when the process started
    args,     \* clap's matches: the four flags, the -i values, the -o value
    output,   \* the local `output` of main
    pc,       \* position in main: "start", "dispatch", "exit"
    stdout,   \* lines printed with println!
    stderr,   \* lines printed with eprintln! and panic messages
    exit,     \* exit status, Running until the process ends
    called,   \* handlers invoked by this process, with their arguments
    io,       \* filesystem calls made by this process
    second,   \* TRUE in the second of two consecutive invocations
    prev      \* what the first invocation did, once the second has started

vars == <<fs, fs0, args, output, pc, stdout, stderr, exit, called, io,
          second, prev>>

Running == -1

\* Status of a process that ends by returning from main.
Success == 0

\* Status of a process that ends by a panic (unwrap on None, expect on Err).
PanicStatus == 101

Call(fn, a1, a2) == [fn |-> fn, a1 |-> a1, a2 |-> a2]

Usage == Msg("usage", "", "")

NoOperationMsg == Msg("specify", "--compress or --decompress", "")

PanicMsg(label) == Msg("panic", label, "")

UnwrapNone == "called Option::unwrap() on a None value"

\* The values of -i: absent, or one to MaxInputs paths.
InputLists == UNION {[1..n -> Paths] : n \in 0..MaxInputs}

ArgsAll ==
    [c : BOOLEAN, d : BOOLEAN, a : BOOLEAN, h : BOOLEAN,
     input : InputLists, output : Paths \cup {None}]

\* matches.get_one::<String>("input"): the first value.
GetOneInput == Head(args.input)

Panic(label) ==
    /\ stderr' = Append(stderr, PanicMsg(label))
    /\ exit' = PanicStatus
    /\ pc' = "exit"
    /\ UNCHANGED <<fs, fs0, args, output, stdout, called, io, second, prev>>

\* A handler call followed by .expect(label).
Handle(r, call, label) ==
    /\ fs' = r.fs
    /\ stdout' = stdout \o r.out
    /\ stderr' = IF r.ok THEN stderr \o r.err
                         ELSE (stderr \o r.err) \o <<PanicMsg(label)>>
    /\ exit' = IF r.ok THEN Success ELSE PanicStatus
    /\ io' = io \o r.io
    /\ called' = Append(called, call)
    /\ pc' = "exit"
    /\ UNCHANGED <<fs0, args, output, second, prev>>

\* MainHelp with a fault: the usage text is printed and main goes on.
MainHelp_NoReturn ==
    /\ pc = "start"
    /\ args.h
    /\ stdout' = Append(stdout, Usage)
    /\ pc' = "dispatch"
    /\ output' = args.output
    /\ UNCHANGED <<fs, fs0, args, stderr, exit, called, io, second, prev>>

MainHelp ==
    /\ pc = "start"
    /\ args.h
    /\ stdout' = Append(stdout, Usage)
    /\ exit' = Success
    /\ pc' = "exit"
    /\ UNCHANGED <<fs, fs0, args, output, stderr, called, io, second, prev>>

\* MainGetOutput with a fault: a default stands in for a missing -o.
MainGetOutput_OrDefault ==
    /\ pc = "start"
    /\ ~args.h
    /\ output' = IF args.output = None THEN "t" ELSE args.output
    /\ pc' = "dispatch"
    /\ UNCHANGED <<fs, fs0, args, stdout, stderr, exit, called, io,
                   second, prev>>

MainGetOutput ==
    /\ pc = "start"
    /\ ~args.h
    /\ IF args.output = None
       THEN Panic(UnwrapNone)
       ELSE /\ output' = args.output
            /\ pc' = "dispatch"
            /\ UNCHANGED <<fs, fs0, args, stdout, stderr, exit, called, io,
                           second, prev>>

MainCompress ==
    /\ pc = "dispatch"
    /\ args.c
    /\ IF args.input = <<>>
       THEN Panic(UnwrapNone)
       ELSE Handle(compress_files(fs, args.input, output),
                   Call("compress_files", args.input, output),
                   "Compression failed")

MainDecompress ==
    /\ pc = "dispatch"
    /\ ~args.c /\ args.d
    /\ IF args.input = <<>>
       THEN Panic(UnwrapNone)
       ELSE Handle(decompress_files(fs, GetOneInput, output),
                   Call("decompress_files", <<GetOneInput>>, output),
                   "Decompression failed")

\* MainAdd with a fault: -o is taken as the archive and -i as the file.
MainAdd_Swapped ==
    /\ pc = "dispatch"
    /\ ~args.c /\ ~args.d /\ args.a
    /\ IF args.input = <<>>
       THEN Panic(UnwrapNone)
       ELSE Handle(add_file_to_tar_gz(fs, args.output, GetOneInput),
                   Call("add_file_to_tar_gz", <<args.output>>, GetOneInput),
                   "Adding file failed")

MainAdd ==
    /\ pc = "dispatch"
    /\ ~args.c /\ ~args.d /\ args.a
    /\ IF args.input = <<>>
       THEN Panic(UnwrapNone)
       ELSE Handle(add_file_to_tar_gz(fs, GetOneInput, args.output),
                   Call("add_file_to_tar_gz", <<GetOneInput>>, args.output),
                   "Adding file failed")

MainNoOperation ==
    /\ pc = "dispatch"
    /\ ~args.c /\ ~args.d /\ ~args.a
    /\ stderr' = Append(stderr, NoOperationMsg)
    /\ exit' = Success
    /\ pc' = "exit"
    /\ UNCHANGED <<fs, fs0, args, output, stdout, called, io, second, prev>>

(***************************************************************************)
(* The filesystems a process can find                                      *)
(***************************************************************************)
X == <<Raw("x")>>

Y == <<Raw("y")>>

\* An archive of a and b, as compress_files writes it.
Archive2 == GzSegment(<<FileEntry("a", X), FileEntry("b", Y)>>)

\* An archive cut after its first entry.
Truncated == <<GzHeader, FileEntry("a", Y)>>

InitFS ==
    {[p \in Paths |->
        CASE p = "a" -> RegFile(X)
          [] p = "b" -> b
          [] p = "t" -> t
          [] OTHER   -> d] :
     b \in {Absent, RegFile(Y)},
     t \in {Absent, RegFile(Archive2), RegFile(X), RegFile(Truncated)},
     d \in {Absent, Dir(NoKids)}}

Start(f, g) ==
    /\ fs = f
    /\ fs0 = f
    /\ args = g
    /\ output = None
    /\ pc = "start"
    /\ stdout = <<>>
    /\ stderr = <<>>
    /\ exit = Running
    /\ called = <<>>
    /\ io = <<>>
    /\ second = FALSE
    /\ prev = <<>>

Init == \E f \in InitFS, g \in ArgsAll : Start(f, g)

Next ==
    \/ MainHelp
    \/ MainGetOutput
    \/ MainCompress
    \/ MainDecompress
    \/ MainAdd
    \/ MainNoOperation

Spec == Init /\ [][Next]_vars

(***************************************************************************)
(* Two consecutive invocations on the same filesystem                      *)
(***************************************************************************)
OneOperation(g) ==
    Cardinality({x \in {"c", "d", "a", "h"} : g[x]}) <= 1

ArgsFirst == {g \in ArgsAll : OneOperation(g)}

ArgsSecond ==
    {g \in ArgsAll : /\ OneOperation(g) /\ ~g.h /\ (g.c \/ g.d \/ g.a)
                     /\ Len(g.input) = 1 /\ g.output # None}

SeqFS == {f \in InitFS : f["t"] \in {Absent, RegFile(Archive2)}
                         /\ f["d"] = Absent}

Reinvoke ==
    /\ pc = "exit"
    /\ ~second
    /\ \E g \in ArgsSecond : args' = g
    /\ second' = TRUE
    /\ prev' = <<[called |-> called, exit |-> exit, fs0 |-> fs0]>>
    /\ fs0' = fs
    /\ output' = None
    /\ pc' = "start"
    /\ stdout' = <<>>
    /\ stderr' = <<>>
    /\ exit' = Running
    /\ called' = <<>>
    /\ io' = <<>>
    /\ UNCHANGED fs

InitSeq == \E f \in SeqFS, g \in ArgsFirst : Start(f, g)

NextSeq == Next \/ Reinvoke

SpecSeq == InitSeq /\ [][NextSeq]_vars

TypeOK ==
    /\ pc \in {"start", "dispatch", "exit"}
    /\ exit \in {Running, Success, PanicStatus}
    /\ (pc = "exit") = (exit # Running)

(***************************************************************************)
(* Properties                                                              *)
(***************************************************************************)
AtExit == pc = "exit"

TheCall == called[1]

Ran(fn) == AtExit /\ Len(called) = 1 /\ TheCall.fn = fn

Reported(label) == \E i \in 1..Len(stderr) : stderr[i] = PanicMsg(label)

IsEntry(t) == t.k \in {"file", "dir"}

\* bytes is exactly one compressed archive: header, entries, end marker,
\* trailer.
IsArchive(bytes) ==
    /\ Len(bytes) >= 3
    /\ bytes[1] = GzHeader
    /\ bytes[Len(bytes) - 1] = EndOfArchive
    /\ bytes[Len(bytes)] = GzTrailer
    /\ \A i \in 2..(Len(bytes) - 2) : IsEntry(bytes[i])

\* bytes starts with a compressed archive that reaches its end marker.
BeginsWithArchive(bytes) ==
    \E n \in 2..Len(bytes) :
        /\ bytes[1] = GzHeader
        /\ bytes[n] = EndOfArchive
        /\ \A i \in 2..(n - 1) : IsEntry(bytes[i])

EntryPaths(bytes) == [i \in 1..(Len(bytes) - 3) |-> bytes[i + 1].path]

IsPrefix(s, t) == Len(s) <= Len(t) /\ SubSeq(t, 1, Len(s)) = s

Warnings(missing) == [i \in 1..Len(missing) |-> Msg("skip", missing[i], "")]

Mixed(f, input_files) ==
    /\ \E i \in 1..Len(input_files) : Exists(f, input_files[i])
    /\ \E i \in 1..Len(input_files) : ~Exists(f, input_files[i])

\* C1 as stated: after compress_files(inputs, archive) succeeded on a
\* non-empty list of existing regular files and decompress_files(archive,
\* dir) then succeeded, dir holds every input under its path with the
\* content the input had, and nothing else was extracted.
C1_RoundTripAnyInputs ==
    (/\ second
     /\ Ran("decompress_files")
     /\ exit = Success
     /\ prev[1].exit = Success
     /\ Len(prev[1].called) = 1
     /\ prev[1].called[1].fn = "compress_files"
     /\ prev[1].called[1].a2 = TheCall.a1[1]
     /\ \A i \in 1..Len(prev[1].called[1].a1) :
            prev[1].fs0[prev[1].called[1].a1[i]].kind = "file")
    => LET inputs == prev[1].called[1].a1
           dir == TheCall.a2
       IN  /\ \A i \in 1..Len(inputs) :
                 fs[dir].kids[inputs[i]]
                     = ChildFile(prev[1].fs0[inputs[i]].data)
           /\ \A p \in Paths :
                 fs[dir].kids[p] # fs0[dir].kids[p]
                     => \E i \in 1..Len(inputs) : inputs[i] = p

\* C1 amended: the same, for input lists that do not name the archive
\* itself.
C1_RoundTrip ==
    (/\ second
     /\ Ran("decompress_files")
     /\ exit = Success
     /\ prev[1].exit = Success
     /\ Len(prev[1].called) = 1
     /\ prev[1].called[1].fn = "compress_files"
     /\ prev[1].called[1].a2 = TheCall.a1[1]
     /\ \A i \in 1..Len(prev[1].called[1].a1) :
            /\ prev[1].fs0[prev[1].called[1].a1[i]].kind = "file"
            /\ prev[1].called[1].a1[i] # prev[1].called[1].a2)
    => LET inputs == prev[1].called[1].a1
           dir == TheCall.a2
       IN  /\ \A i \in 1..Len(inputs) :
                 fs[dir].kids[inputs[i]]
                     = ChildFile(prev[1].fs0[inputs[i]].data)
           /\ \A p \in Paths :
                 fs[dir].kids[p] # fs0[dir].kids[p]
                     => \E i \in 1..Len(inputs) : inputs[i] = p

C1_Witness ==
    /\ second
    /\ Ran("decompress_files")
    /\ exit = Success
    /\ TheCall = Call("decompress_files", <<"t">>, "d")
    /\ prev[1].exit = Success
    /\ prev[1].called = <<Call("compress_files", <<"b", "a">>, "t")>>
    /\ prev[1].fs0["b"] = RegFile(Y)
    /\ fs["d"].kids["a"] = ChildFile(X)
    /\ fs["d"].kids["b"] = ChildFile(Y)

\* C2: after a successful add to an existing archive, the archive file is
\* its original bytes followed by one new compressed segment holding the
\* added file.
C2_AddAppendsSegment ==
    (/\ Ran("add_file_to_tar_gz")
     /\ exit = Success
     /\ IsArchive(fs0[TheCall.a1[1]].data))
    => fs[TheCall.a1[1]].data
         = fs0[TheCall.a1[1]].data
             \o GzSegment(<<FileEntry(TheCall.a2, fs0[TheCall.a2].data)>>)

\* C3: when add fails after the archive was opened, the original bytes of
\* the archive are still there, in front of anything written.
C3_FailedAddKeepsArchive ==
    (/\ Ran("add_file_to_tar_gz")
     /\ exit # Success
     /\ fs0[TheCall.a1[1]].kind = "file")
    => /\ fs[TheCall.a1[1]].kind = "file"
       /\ IsPrefix(fs0[TheCall.a1[1]].data, fs[TheCall.a1[1]].data)

\* C4 as stated: compressing a list that mixes existing and missing paths
\* ends successfully with an archive whose entries are the paths that
\* existed, in input order, and one warning per missing path.
C4_SkipsMissingAlways ==
    (/\ Ran("compress_files")
     /\ Mixed(fs0, TheCall.a1))
    => /\ exit = Success
       /\ IsArchive(fs[TheCall.a2].data)
       /\ EntryPaths(fs[TheCall.a2].data)
            = SelectSeq(TheCall.a1, LAMBDA p : Exists(fs0, p))
       /\ stderr = Warnings(SelectSeq(TheCall.a1, LAMBDA p : ~Exists(fs0, p)))

\* C4 amended: when the destination can be created, the entries are the
\* paths that exist when they are visited (those that existed before, and
\* the destination itself, which has just been created), in input order,
\* with one warning for each other path, and the invocation succeeds.
C4_SkipsMissing ==
    (/\ Ran("compress_files")
     /\ Mixed(fs0, TheCall.a1)
     /\ CanCreate(fs0, TheCall.a2))
    => /\ exit = Success
       /\ IsArchive(fs[TheCall.a2].data)
       /\ EntryPaths(fs[TheCall.a2].data)
            = SelectSeq(TheCall.a1,
                        LAMBDA p : Exists(fs0, p) \/ p = TheCall.a2)
       /\ stderr = Warnings(SelectSeq(TheCall.a1,
                        LAMBDA p : ~Exists(fs0, p) /\ p # TheCall.a2))

C4_Witness ==
    /\ Ran("compress_files")
    /\ TheCall = Call("compress_files", <<"b", "a">>, "t")
    /\ ~Exists(fs0, "b")
    /\ exit = Success
    /\ stderr = <<Msg("skip", "b", "")>>
    /\ fs["t"].data = GzSegment(<<FileEntry("a", X)>>)

\* C5: with the help flag, whatever else is given, the process prints the
\* usage text and exits successfully; no handler runs and no file is
\* touched.
C5_HelpOnly ==
    args.h => /\ called = <<>>
              /\ io = <<>>
              /\ fs = fs0
              /\ pc # "dispatch"
              /\ AtExit => (exit = Success /\ stdout = <<Usage>>
                            /\ stderr = <<>>)

C5_Witness ==
    /\ AtExit
    /\ args.h /\ args.c /\ args.d /\ args.a
    /\ args.input # <<>>
    /\ args.output # None
    /\ stdout = <<Usage>>

\* C6: with no operation flag and no help flag the process ends with a
\* non-zero status, after a diagnostic that an operation must be given, and
\* calls no handler.
C6_NoOperationFails ==
    (AtExit /\ ~args.c /\ ~args.d /\ ~args.a /\ ~args.h)
    => /\ exit # Success
       /\ \E i \in 1..Len(stderr) : stderr[i] = NoOperationMsg
       /\ called = <<>>

\* C7: compress with -o and without -i calls compress_files with an empty
\* list, succeeds and leaves an archive of zero entries at the output path.
C7_CompressNoInput ==
    (/\ AtExit
     /\ args.c /\ ~args.h
     /\ args.input = <<>>
     /\ args.output # None
     /\ CanCreate(fs0, args.output))
    => /\ exit = Success
       /\ called = <<Call("compress_files", <<>>, args.output)>>
       /\ fs[args.output] = RegFile(GzSegment(<<>>))

\* C8 as stated: decompressing a source that is missing or is not a
\* compressed archive fails with a reported error and a non-zero status and
\* leaves the filesystem as it was.
C8_BadSourceCreatesNothing ==
    (/\ Ran("decompress_files")
     /\ \/ ~Exists(fs0, TheCall.a1[1])
        \/ ~IsArchive(fs0[TheCall.a1[1]].data))
    => /\ exit # Success
       /\ Reported("Decompression failed")
       /\ fs = fs0

\* C8 amended: a missing source fails with a reported error and leaves the
\* filesystem as it was; a source that does not begin with a complete
\* compressed archive fails with a reported error too, and changes nothing
\* but the destination: it is created as a directory when it was absent, and
\* the only new files in it are entries read before the malformed point.
C8_BadSourceFails ==
    Ran("decompress_files")
    => LET input == TheCall.a1[1]
           dir == TheCall.a2
       IN  /\ ~Exists(fs0, input)
                => /\ exit = PanicStatus
                   /\ Reported("Decompression failed")
                   /\ fs = fs0
           /\ (Exists(fs0, input) /\ ~BeginsWithArchive(fs0[input].data))
                => /\ exit = PanicStatus
                   /\ Reported("Decompression failed")
                   /\ \A p \in Paths \ {dir} : fs[p] = fs0[p]
                   /\ fs[dir].kind =
                        (IF Exists(fs0, dir) THEN fs0[dir].kind ELSE "dir")
                   /\ fs[dir].data = fs0[dir].data
                   /\ \A p \in Paths :
                        fs[dir].kids[p] # fs0[dir].kids[p]
                          => \E i \in 1..Len(fs0[input].data) :
                               fs0[input].data[i]
                                 = FileEntry(p, fs[dir].kids[p].data)

C8_Witness ==
    /\ Ran("decompress_files")
    /\ TheCall = Call("decompress_files", <<"t">>, "d")
    /\ fs0["t"] = RegFile(Truncated)
    /\ fs0["d"] = Absent
    /\ exit = PanicStatus
    /\ fs["d"].kind = "dir"
    /\ fs["d"].kids["a"] = ChildFile(Y)

C10_NoOutputPanics ==
    (~args.h /\ args.output = None)
    => /\ called = <<>>
       /\ io = <<>>
       /\ fs = fs0
       /\ pc # "dispatch"
       /\ AtExit => (exit = PanicStatus /\ Reported(UnwrapNone))

C10_Witness ==
    /\ AtExit
    /\ ~args.h
    /\ args.output = None
    /\ args.c /\ args.d /\ args.a
    /\ args.input # <<>>
    /\ exit = PanicStatus

====
